---------------------------- MODULE Spec2Model ----------------------------
(***************************************************************************)
(* Model of the return-regression trainer (prep_images/trainer/src):       *)
(*   utils.py     time_split, assert_no_nan, replace_inf_with_nan, upload  *)
(*   features.py  build_features                                           *)
(*   train.py     make_xy, main                                            *)
(*                                                                         *)
(* A DataFrame is a sequence of rows [date, c]: date is the index label    *)
(* (a timestamp counted in ticks, TicksPerDay ticks to a day) and c maps   *)
(* a column name to a float.  A column name is a sequence of tokens:       *)
(* <<"A">> is the price column of ticker A, <<"ret_", "A">> its return     *)
(* column, <<"A", "_mean">> a monthly statistic.  A float is NaN, +-Inf or *)
(* a number; returns are kept in hundredths (0.2 is 20).                   *)
(***************************************************************************)
EXTENDS Integers, Sequences, FiniteSets, TLC

VARIABLES
    pc,              \* position of the program
    df_prices,       \* the loaded price table
    fill_pad,        \* pct_change pads missing prices (pandas < 3) or not
    include_monthly, clip_low, clip_high,
    train_end, val_end, min_samples, horizon_max, target_env,
    features_df, last_asof,
    todo,            \* the (target, horizon) pairs the loops have yet to visit
    target_ticker, h,
    X, y, feature_cols,
    data, train_df, val_df, test_df,
    run_id, model, val_pred, test_pred, x_last, pred_last,
    metrics,         \* the tracking server: run id -> logged metrics
    storage,         \* the bucket: key -> object
    trace            \* observable events of this run, oldest first

vars == <<pc, df_prices, fill_pad, include_monthly, clip_low, clip_high,
          train_end, val_end, min_samples, horizon_max, target_env,
          features_df, last_asof, todo, target_ticker, h,
          X, y, feature_cols, data, train_df, val_df, test_df,
          run_id, model, val_pred, test_pred, x_last, pred_last,
          metrics, storage, trace>>

cfg == <<df_prices, fill_pad, include_monthly, clip_low, clip_high,
         train_end, val_end, min_samples, horizon_max, target_env>>
split_vars == <<data, train_df, val_df, test_df>>
xy_vars == <<X, y, feature_cols>>
run_vars == <<run_id, model, val_pred, test_pred, x_last, pred_last>>

(* ---------------------------- bounds ---------------------------------- *)
TicksPerDay == 2
DaysPerMonth == 2
NumMonths == 3
NumDays == 3
MaxRows == 3
MaxH == 3
MainRows == 6
MainH == 2
MaxMinSamples == 2
DirtyRows == 4

(* ---------------------------- floats ---------------------------------- *)
NaN == [k |-> "nan", v |-> 0]
Inf == [k |-> "inf", v |-> 1]
NegInf == [k |-> "inf", v |-> -1]
Num(n) == [k |-> "num", v |-> n]
IsNum(x) == x.k = "num"
IsNaN(x) == x.k = "nan"
IsInf(x) == x.k = "inf"

(* ---------------------------- time ------------------------------------ *)
DayOf(t) == t \div TicksPerDay
Midnight(d) == d * TicksPerDay
EndOfDay(d) == d * TicksPerDay + (TicksPerDay - 1)

(* ---------------------------- frames ---------------------------------- *)
Frame(cols, rows) == [cols |-> cols, rows |-> rows]
NoFrame == Frame({}, <<>>)
len(df) == Len(df.rows)
Index(df) == [i \in DOMAIN df.rows |-> df.rows[i].date]
Column(df, col) == [i \in DOMAIN df.rows |-> [date |-> df.rows[i].date, v |-> df.rows[i].c[col]]]
Restrict(f, S) == [x \in S |-> f[x]]
\* df[cols]
Project(df, cols) ==
    Frame(cols, [i \in DOMAIN df.rows |->
                    [date |-> df.rows[i].date, c |-> Restrict(df.rows[i].c, cols)]])

RECURSIVE InsertByDate(_, _)
InsertByDate(r, s) ==
    IF s = <<>> THEN <<r>>
    ELSE IF s[Len(s)].date <= r.date THEN Append(s, r)
    ELSE Append(InsertByDate(r, SubSeq(s, 1, Len(s) - 1)), s[Len(s)])

RECURSIVE SortRows(_)
SortRows(rows) ==
    IF rows = <<>> THEN <<>>
    ELSE InsertByDate(rows[Len(rows)], SortRows(SubSeq(rows, 1, Len(rows) - 1)))

sort_index(df) == Frame(df.cols, SortRows(df.rows))

(* utils.py time_split: label slices of the sorted frame.  A string bound  *)
(* such as "2021-12-31" closes a slice at the end of that day; the lower   *)
(* bounds are pd.Timestamp(day) + 1 day, midnight of the next day.         *)
TrainSlice(df, te) ==
    Frame(df.cols, SelectSeq(df.rows, LAMBDA r : r.date <= EndOfDay(te)))

ValSliceFromBoundaryDay(df, te, ve) ==
    Frame(df.cols, SelectSeq(df.rows, LAMBDA r : r.date >= Midnight(te)
                                                 /\ r.date <= EndOfDay(ve)))
ValSlice(df, te, ve) ==
    Frame(df.cols, SelectSeq(df.rows, LAMBDA r : r.date >= Midnight(te) + TicksPerDay
                                                 /\ r.date <= EndOfDay(ve)))

TestSlice(df, ve) ==
    Frame(df.cols, SelectSeq(df.rows, LAMBDA r : r.date >= Midnight(ve) + TicksPerDay))

time_split(df, te, ve) ==
    LET s == sort_index(df)
    IN  [train |-> TrainSlice(s, te), val |-> ValSlice(s, te, ve), test |-> TestSlice(s, ve)]

(* utils.py replace_inf_with_nan, DataFrame.dropna, assert_no_nan *)
KeepInf(df) == df
replace_inf_with_nan(df) ==
    Frame(df.cols, [i \in DOMAIN df.rows |->
        [date |-> df.rows[i].date,
         c |-> [col \in df.cols |-> IF IsInf(df.rows[i].c[col]) THEN NaN
                                    ELSE df.rows[i].c[col]]]])
dropna(df) ==
    Frame(df.cols, SelectSeq(df.rows, LAMBDA r : \A col \in df.cols : ~IsNaN(r.c[col])))
CountNaN(df) ==
    Cardinality({<<i, col>> \in (DOMAIN df.rows) \X df.cols : IsNaN(df.rows[i].c[col])})
\* TRUE when assert_no_nan returns, FALSE when it raises ValueError
assert_no_nan(df) == ~(CountNaN(df) > 0)

(* ------------------- idle values of unused state ----------------------- *)
IdlePrices ==
    /\ df_prices = NoFrame /\ fill_pad = FALSE /\ include_monthly = FALSE
    /\ clip_low = Num(-20) /\ clip_high = Num(20)
IdleLoop ==
    /\ min_samples = 0 /\ horizon_max = 0 /\ target_env = "ALL"
    /\ last_asof = -1 /\ todo = <<>>
IdleXY ==
    /\ features_df = NoFrame /\ target_ticker = "" /\ h = 0
    /\ X = NoFrame /\ y = <<>> /\ feature_cols = {}
IdleSplit ==
    /\ train_end = 0 /\ val_end = 0
    /\ data = NoFrame /\ train_df = NoFrame /\ val_df = NoFrame /\ test_df = NoFrame
NoStorage == [exists |-> FALSE, objects |-> <<>>]
IdleRun ==
    /\ run_id = 0 /\ model = <<>> /\ val_pred = <<>> /\ test_pred = <<>>
    /\ x_last = NoFrame /\ pred_last = NaN
    /\ metrics = <<>> /\ storage = NoStorage /\ trace = <<>>

(* ======================= time_split on its own ========================= *)
Ticks == 0 .. (NumDays * TicksPerDay - 1)
Days == 0 .. (NumDays - 1)
YCol == <<"y">>
\* Frames of at most MaxRows rows, in any order, repeated labels allowed;
\* the y cell of a row carries its position in the input.
InitSplit ==
    /\ pc = "split_in"
    /\ data \in UNION { { Frame({YCol}, [i \in 1..n |-> [date |-> f[i], c |-> (YCol :> Num(i))]]) :
                            f \in [1..n -> Ticks] } : n \in 0..MaxRows }
    /\ train_end \in Days /\ val_end \in Days
    /\ train_df = NoFrame /\ val_df = NoFrame /\ test_df = NoFrame
    /\ IdlePrices /\ IdleLoop /\ IdleXY /\ IdleRun

CallTimeSplit ==
    /\ pc = "split_in"
    /\ LET s == time_split(data, train_end, val_end)
       IN  train_df' = s.train /\ val_df' = s.val /\ test_df' = s.test
    /\ pc' = "split_out"
    /\ UNCHANGED <<cfg, features_df, last_asof, todo, target_ticker, h, xy_vars,
                   data, run_vars, metrics, storage, trace>>

NextSplit == CallTimeSplit
SpecSplit == InitSplit /\ [][NextSplit]_vars

Occurs(df, r) == Cardinality({i \in DOMAIN df.rows : df.rows[i] = r})
InSlice(df, r) == Occurs(df, r) > 0

\* C1: every row of the input of time_split is in exactly one of train, val
\* and test, for every pair of boundaries, also when train_end is later than
\* val_end.
C1_Partition ==
    pc = "split_out" =>
        \A i \in DOMAIN data.rows :
            Occurs(train_df, data.rows[i]) + Occurs(val_df, data.rows[i])
                + Occurs(test_df, data.rows[i]) = 1

\* C2: a row dated d is in train iff d <= train_end, in val iff
\* train_end < d <= val_end, and in test iff d > val_end (d compared as a day).
C2_Convention ==
    pc = "split_out" =>
        \A i \in DOMAIN data.rows :
            LET r == data.rows[i]
                d == DayOf(r.date)
            IN  /\ InSlice(train_df, r) <=> d <= train_end
                /\ InSlice(val_df, r) <=> (train_end < d /\ d <= val_end)
                /\ InSlice(test_df, r) <=> d > val_end

\* A row late on the day train_end sits in train and not in val, and a row late
\* on the day val_end sits in val and not in test.
C2_Witness ==
    /\ pc = "split_out"
    /\ train_end < val_end
    /\ \E i, j \in DOMAIN data.rows :
        /\ data.rows[i].date = EndOfDay(train_end)
        /\ InSlice(train_df, data.rows[i]) /\ ~InSlice(val_df, data.rows[i])
        /\ data.rows[j].date = EndOfDay(val_end)
        /\ InSlice(val_df, data.rows[j]) /\ ~InSlice(test_df, data.rows[j])

(* ============================ train.py make_xy ========================= *)
RetCol(t) == <<"ret_", t>>
PriceCol(t) == <<t>>
StatCol(t, stat) == <<t, stat>>
startswith_ret(col) == col[1] = "ret_"

\* Series.shift(-k): the value k rows further on, NaN past the end
ShiftOneTooFar(ser, k) ==
    [i \in DOMAIN ser |->
        [date |-> ser[i].date,
         v |-> IF i + k + 1 \in DOMAIN ser THEN ser[i + k + 1].v ELSE NaN]]
Shift(ser, k) ==
    [i \in DOMAIN ser |->
        [date |-> ser[i].date,
         v |-> IF i + k \in DOMAIN ser THEN ser[i + k].v ELSE NaN]]

\* s.iloc[:-k]
DropLast(s, k) == IF k = 0 THEN <<>> ELSE SubSeq(s, 1, Len(s) - k)

AllRetCols(df, target_col) == {col \in df.cols : startswith_ret(col)}
FeatureCols(df, target_col) == {col \in df.cols : startswith_ret(col) /\ col # target_col}

make_xy(df, target, horizon_days) ==
    LET target_col == RetCol(target)
    IN  IF target_col \notin df.cols
        THEN [raised |-> "ValueError", X |-> NoFrame, y |-> <<>>, feature_cols |-> {}]
        ELSE
            LET y0 == Shift(Column(df, target_col), horizon_days)
                fc == FeatureCols(df, target_col)
                X0 == Project(df, fc)
                X1 == Frame(fc, DropLast(X0.rows, horizon_days))
                y1 == DropLast(y0, horizon_days)
            IN  IF Index(X1) # [i \in DOMAIN y1 |-> y1[i].date]
                THEN [raised |-> "AssertionError", X |-> NoFrame, y |-> <<>>,
                      feature_cols |-> {}]
                ELSE [raised |-> "", X |-> X1, y |-> y1, feature_cols |-> fc]

(* ------------------------ make_xy on its own --------------------------- *)
TickerSets == {{"A"}, {"A", "B"}}
RetVals == {Num(-1), Num(2)}
XYCols(ts, monthly) ==
    {PriceCol(t) : t \in ts} \cup {RetCol(t) : t \in ts}
        \cup (IF monthly THEN {StatCol(t, "_mean") : t \in ts} ELSE {})
\* feature matrices of 1..MaxRows daily rows: any returns, prices and
\* monthly means all 1
XYInputs(ts, monthly) ==
    UNION { { Frame(XYCols(ts, monthly),
                [i \in 1..n |->
                    [date |-> Midnight(i - 1),
                     c |-> [col \in XYCols(ts, monthly) |->
                              IF startswith_ret(col) THEN r[i][col[2]] ELSE Num(1)]]]) :
              r \in [1..n -> [ts -> RetVals]] } : n \in 1..MaxRows }

InitXY ==
    /\ pc = "xy_in"
    /\ include_monthly \in BOOLEAN
    /\ \E ts \in TickerSets : features_df \in XYInputs(ts, include_monthly)
    /\ target_ticker \in {"A", "B"}
    /\ h \in 1..MaxH
    /\ X = NoFrame /\ y = <<>> /\ feature_cols = {}
    /\ df_prices = NoFrame /\ fill_pad = FALSE
    /\ clip_low = Num(-20) /\ clip_high = Num(20)
    /\ IdleLoop /\ IdleSplit /\ IdleRun

CallMakeXY ==
    /\ pc = "xy_in"
    /\ LET r == make_xy(features_df, target_ticker, h)
       IN  /\ X' = r.X /\ y' = r.y /\ feature_cols' = r.feature_cols
           /\ pc' = IF r.raised = "" THEN "xy_out" ELSE "xy_raised"
    /\ UNCHANGED <<cfg, features_df, last_asof, todo, target_ticker, h,
                   split_vars, run_vars, metrics, storage, trace>>

NextXY == CallMakeXY
SpecXY == InitXY /\ [][NextXY]_vars

XYAligned ==
    /\ Index(X) = [i \in DOMAIN y |-> y[i].date]
    /\ \A i \in DOMAIN X.rows :
        /\ i + h \in DOMAIN features_df.rows
        /\ X.rows[i].date = features_df.rows[i].date
        /\ y[i].v = features_df.rows[i + h].c[RetCol(target_ticker)]

\* C4: for every h >= 1, make_xy returns X and y with identical indexes, y[t]
\* is the target's return h rows after t, and len(X) = len(y) = len(features) - h.
C4_LabelAlignment ==
    pc = "xy_out" =>
        /\ XYAligned
        /\ len(X) = len(features_df) - h
        /\ Len(y) = len(features_df) - h

\* C4 amended: the same, with the length len(features) - h when h <= len(features)
\* and 0 when h is larger.
C4_LabelAlignmentAmended ==
    pc = "xy_out" =>
        /\ XYAligned
        /\ len(X) = (IF h <= len(features_df) THEN len(features_df) - h ELSE 0)
        /\ Len(y) = len(X)

\* make_xy has kept rows for a horizon of two or more
C4_Witness == pc = "xy_out" /\ h >= 2 /\ len(X) >= 1

\* C6: X never holds the target's own return column, and with a single
\* instrument X has no column at all.
C6_LeakageGuard ==
    pc = "xy_out" =>
        /\ RetCol(target_ticker) \notin feature_cols
        /\ X.cols = feature_cols
        /\ \A i \in DOMAIN X.rows : DOMAIN X.rows[i].c = feature_cols
        /\ \A col \in feature_cols : startswith_ret(col)
        /\ Cardinality({col \in features_df.cols : Len(col) = 1}) = 1 => X.cols = {}

\* two instruments: X keeps the other instrument's return only
C6_Witness ==
    /\ pc = "xy_out"
    /\ RetCol(target_ticker) \in features_df.cols
    /\ Cardinality(feature_cols) = 1
    /\ len(X) >= 1

(* ======================== features.py build_features =================== *)
\* float order on non-NaN values
FLe(a, b) ==
    CASE IsNum(a) /\ IsNum(b) -> a.v <= b.v
      [] IsInf(a) /\ a.v = -1 -> TRUE
      [] IsInf(b) /\ b.v = 1 -> TRUE
      [] OTHER -> FALSE
FMin(a, b) == IF FLe(a, b) THEN a ELSE b
FMax(a, b) == IF FLe(a, b) THEN b ELSE a

\* cur / prev - 1 in IEEE arithmetic, the quotient kept in hundredths
PctOf(prev, cur) ==
    CASE IsNaN(prev) \/ IsNaN(cur) -> NaN
      [] IsInf(cur) /\ IsInf(prev) -> NaN
      [] IsInf(cur) -> IF IsNum(prev) /\ prev.v < 0 THEN [k |-> "inf", v |-> -cur.v] ELSE cur
      [] IsInf(prev) -> Num(-100)
      [] prev.v = 0 -> IF cur.v = 0 THEN NaN ELSE IF cur.v > 0 THEN Inf ELSE NegInf
      [] OTHER -> Num((cur.v * 100) \div prev.v - 100)

\* DataFrame.ffill on one column: the last value seen that is not NaN
RECURSIVE Ffill(_, _, _)
Ffill(df, col, i) ==
    IF i = 1 \/ ~IsNaN(df.rows[i].c[col]) THEN df.rows[i].c[col]
    ELSE Ffill(df, col, i - 1)

\* DataFrame.pct_change().add_prefix("ret_"): pandas before 3.0 pads missing
\* prices first (fill_method="pad"), pandas 3.0 does not
pct_change(df, pad) ==
    LET cell(col, i) == IF pad THEN Ffill(df, col, i) ELSE df.rows[i].c[col]
        rcols == {<<"ret_">> \o col : col \in df.cols}
    IN  Frame(rcols,
              [i \in DOMAIN df.rows |->
                 [date |-> df.rows[i].date,
                  c |-> [rc \in rcols |->
                           IF i = 1 THEN NaN
                           ELSE PctOf(cell(Tail(rc), i - 1), cell(Tail(rc), i))]]])

(* monthly statistics *)
MonthOf(t) == DayOf(t) \div DaysPerMonth
Stats == {"_mean", "_median", "_std"}

RECURSIVE SumSeq(_)
SumSeq(s) == IF s = <<>> THEN 0 ELSE s[1] + SumSeq(Tail(s))

RECURSIVE InsertVal(_, _)
InsertVal(x, s) ==
    IF s = <<>> THEN <<x>>
    ELSE IF FLe(s[Len(s)], x) THEN Append(s, x)
    ELSE Append(InsertVal(x, SubSeq(s, 1, Len(s) - 1)), s[Len(s)])
RECURSIVE SortVals(_)
SortVals(s) ==
    IF s = <<>> THEN <<>> ELSE InsertVal(s[Len(s)], SortVals(SubSeq(s, 1, Len(s) - 1)))

RECURSIVE ISqrtBetween(_, _, _)
ISqrtBetween(n, lo, hi) ==
    IF hi - lo <= 1 THEN lo
    ELSE LET mid == (lo + hi) \div 2
         IN  IF mid * mid <= n THEN ISqrtBetween(n, mid, hi)
             ELSE ISqrtBetween(n, lo, mid)
\* the root of a 32-bit integer is below 46341, which keeps mid * mid in range
ISqrt(n) == ISqrtBetween(n, 0, IF n < 46340 THEN n + 1 ELSE 46341)

\* the values one aggregation sees: the cells of the month that are not NaN
MonthVals(df, m, col) ==
    LET rows == SelectSeq(df.rows, LAMBDA r : MonthOf(r.date) = m /\ ~IsNaN(r.c[col]))
    IN  [i \in DOMAIN rows |-> rows[i].c[col]]

HasInf(vals, sign) == \E i \in DOMAIN vals : IsInf(vals[i]) /\ vals[i].v = sign
Nums(vals) == [i \in DOMAIN vals |-> vals[i].v]

Mean(vals) ==
    IF vals = <<>> THEN NaN
    ELSE IF HasInf(vals, 1) /\ HasInf(vals, -1) THEN NaN
    ELSE IF HasInf(vals, 1) THEN Inf
    ELSE IF HasInf(vals, -1) THEN NegInf
    ELSE Num((SumSeq(Nums(vals)) * 100) \div Len(vals))

Half(a, b) ==
    CASE IsNum(a) /\ IsNum(b) -> Num(((a.v + b.v) * 100) \div 2)
      [] IsInf(a) /\ IsInf(b) /\ a.v # b.v -> NaN
      [] IsInf(a) -> a
      [] OTHER -> b
Median(vals) ==
    LET s == SortVals(vals)
        n == Len(s)
    IN  IF n = 0 THEN NaN
        ELSE IF n % 2 = 1 THEN Half(s[(n + 1) \div 2], s[(n + 1) \div 2])
        ELSE Half(s[n \div 2], s[n \div 2 + 1])

\* sample standard deviation (ddof = 1), in hundredths
Std(vals) ==
    LET n == Len(vals)
        xs == Nums(vals)
        sq == [i \in DOMAIN xs |-> xs[i] * xs[i]]
    IN  IF n < 2 \/ HasInf(vals, 1) \/ HasInf(vals, -1) THEN NaN
        ELSE Num(ISqrt((10000 * (n * SumSeq(sq) - SumSeq(xs) * SumSeq(xs)))
                         \div (n * (n - 1))))

Agg(vals, stat) ==
    CASE stat = "_mean" -> Mean(vals)
      [] stat = "_median" -> Median(vals)
      [] OTHER -> Std(vals)

StatCols(df) == {col \o <<stat>> : col \in df.cols, stat \in Stats}

\* df.resample("ME").agg([...]) with the index turned into periods: one row
\* for every calendar month from the first row's to the last row's, empty
\* months included
Resample(df) ==
    IF df.rows = <<>> THEN Frame(StatCols(df), <<>>)
    ELSE
        LET m0 == MonthOf(df.rows[1].date)
            m1 == MonthOf(df.rows[Len(df.rows)].date)
        IN  Frame(StatCols(df),
                  [k \in 1..(m1 - m0 + 1) |->
                      [date |-> m0 + k - 1,
                       c |-> [sc \in StatCols(df) |->
                                Agg(MonthVals(df, m0 + k - 1, <<sc[1]>>), sc[2])]]])

\* DataFrame.shift(k), k >= 0: the cells of the row k places earlier
ShiftFrame(df, k) ==
    Frame(df.cols,
          [i \in DOMAIN df.rows |->
              [date |-> df.rows[i].date,
               c |-> IF i - k \in DOMAIN df.rows THEN df.rows[i - k].c
                     ELSE [col \in df.cols |-> NaN]]])

\* daily.join(monthly_lag1, on="ym"): a left join on the row's month
JoinOnMonth(daily, monthly) ==
    Frame(daily.cols \cup monthly.cols,
          [i \in DOMAIN daily.rows |->
              LET ym == MonthOf(daily.rows[i].date)
                  hit == {j \in DOMAIN monthly.rows : monthly.rows[j].date = ym}
              IN  [date |-> daily.rows[i].date,
                   c |-> [col \in daily.cols \cup monthly.cols |->
                            IF col \in daily.cols THEN daily.rows[i].c[col]
                            ELSE IF hit = {} THEN NaN
                            ELSE monthly.rows[CHOOSE j \in hit : TRUE].c[col]]]])

MonthlyLagNone(df) == Resample(df)
MonthlyLag1(df) == ShiftFrame(Resample(df), 1)

\* pd.concat([a, b], axis=1) of two frames over the same index
ConcatCols(a, b) ==
    Frame(a.cols \cup b.cols,
          [i \in DOMAIN a.rows |->
              [date |-> a.rows[i].date,
               c |-> [col \in a.cols \cup b.cols |->
                        IF col \in a.cols THEN a.rows[i].c[col] ELSE b.rows[i].c[col]]]])

\* Series.clip(lo, hi): a NaN bound is no bound, and two bounds are put in order
None == [k |-> "none", v |-> 0]
Clip(x, lo, hi) ==
    LET lo0 == IF IsNaN(lo) THEN None ELSE lo
        hi0 == IF IsNaN(hi) THEN None ELSE hi
        both == lo0 # None /\ hi0 # None
        lower == IF both THEN FMin(lo0, hi0) ELSE lo0
        upper == IF both THEN FMax(lo0, hi0) ELSE hi0
        r1 == IF lower # None /\ ~IsNaN(x) /\ ~FLe(lower, x) THEN lower ELSE x
    IN  IF upper # None /\ ~IsNaN(x) /\ ~FLe(x, upper) THEN upper ELSE r1

ClipReturns(df, lo, hi) ==
    Frame(df.cols,
          [i \in DOMAIN df.rows |->
              [date |-> df.rows[i].date,
               c |-> [col \in df.cols |->
                        IF startswith_ret(col) THEN Clip(df.rows[i].c[col], lo, hi)
                        ELSE df.rows[i].c[col]]]])

build_features(prices, monthly, pad, lo, hi) ==
    LET df == sort_index(prices)
        rets == pct_change(df, pad)
        out0 == IF monthly THEN JoinOnMonth(df, MonthlyLag1(df)) ELSE df
        out1 == ConcatCols(out0, rets)
        out2 == dropna(replace_inf_with_nan(out1))
    IN  ClipReturns(out2, lo, hi)

(* --------------------- build_features on its own ----------------------- *)
FeatDays == 0 .. (NumMonths * DaysPerMonth - 1)
CleanPrices == {NaN, Num(1), Num(2)}

RECURSIVE Ascending(_)
Ascending(S) ==
    IF S = {} THEN <<>>
    ELSE LET m == CHOOSE x \in S : \A z \in S : x <= z
         IN  <<m>> \o Ascending(S \ {m})

\* price tables of the tickers ts: at most maxrows rows on distinct days,
\* oldest first, every cell drawn from vals
PriceTables(ts, days, vals, maxrows) ==
    UNION { { Frame({PriceCol(t) : t \in ts},
                    [i \in 1..Cardinality(D) |->
                        [date |-> Midnight(Ascending(D)[i]),
                         c |-> [col \in {PriceCol(t) : t \in ts} |-> p[i][col]]]]) :
              p \in [1..Cardinality(D) -> [{PriceCol(t) : t \in ts} -> vals]] } :
            D \in {D \in SUBSET days : Cardinality(D) <= maxrows} }

InitFeatures ==
    /\ pc = "feat_in"
    /\ df_prices \in PriceTables({"A"}, FeatDays, CleanPrices, MaxRows)
    /\ fill_pad \in BOOLEAN
    /\ include_monthly = TRUE
    /\ clip_low = Num(-20) /\ clip_high = Num(20)
    /\ IdleLoop /\ IdleXY /\ IdleSplit /\ IdleRun

CallBuildFeatures ==
    /\ pc = "feat_in"
    /\ features_df' = build_features(df_prices, include_monthly, fill_pad, clip_low, clip_high)
    /\ pc' = "feat_out"
    /\ UNCHANGED <<cfg, last_asof, todo, target_ticker, h, xy_vars,
                   split_vars, run_vars, metrics, storage, trace>>

NextFeatures == CallBuildFeatures
SpecFeatures == InitFeatures /\ [][NextFeatures]_vars

\* the statistic of the calendar month before the row's own
PreviousMonthStat(prices, r, sc) ==
    Agg(MonthVals(sort_index(prices), MonthOf(r.date) - 1, <<sc[1]>>), sc[2])

\* C7: with include_monthly on, every monthly statistic on a daily row of month
\* M is the statistic of the prices of the calendar month M - 1 and of nothing
\* later, in the returned matrix and in the joined table it is cleaned from,
\* where rows after an empty month are still present.
C7_NoLookahead ==
    (pc = "feat_out" /\ include_monthly) =>
        /\ \A i \in DOMAIN features_df.rows : \A sc \in StatCols(df_prices) :
              features_df.rows[i].c[sc]
                  = PreviousMonthStat(df_prices, features_df.rows[i], sc)
        /\ LET df == sort_index(df_prices)
               joined == JoinOnMonth(df, MonthlyLag1(df))
           IN  \A i \in DOMAIN joined.rows : \A sc \in StatCols(df_prices) :
                  joined.rows[i].c[sc] = PreviousMonthStat(df_prices, joined.rows[i], sc)

\* a row survives with the three statistics of the month before it
C7_Witness ==
    /\ pc = "feat_out" /\ include_monthly
    /\ \E i \in DOMAIN features_df.rows :
          /\ MonthOf(features_df.rows[i].date) >= 1
          /\ \A sc \in StatCols(df_prices) : IsNum(features_df.rows[i].c[sc])

(* ============================ train.py main ============================ *)
TickerOrder == <<"A", "B">>
\* list(df_prices.columns)
TickerList(prices) == SelectSeq(TickerOrder, LAMBDA t : PriceCol(t) \in prices.cols)
\* for target_ticker in target_tickers: for h in range(1, horizon_max + 1)
Pairs(targets, hmax) ==
    [k \in 1..(Len(targets) * hmax) |->
        <<targets[((k - 1) \div hmax) + 1], ((k - 1) % hmax) + 1>>]

\* X.join(y.rename("y"), how="inner"): every pair of rows with the same label
RECURSIVE JoinRows(_, _)
JoinRows(xrows, ys) ==
    IF xrows = <<>> THEN <<>>
    ELSE LET r == xrows[1]
             hits == SelectSeq(ys, LAMBDA q : q.date = r.date)
         IN  [j \in DOMAIN hits |-> [date |-> r.date, c |-> (YCol :> hits[j].v) @@ r.c]]
                 \o JoinRows(Tail(xrows), ys)
JoinY(Xf, ys) == Frame(Xf.cols \cup {YCol}, JoinRows(Xf.rows, ys))

MaxDate(df) ==
    LET ds == {df.rows[i].date : i \in DOMAIN df.rows}
    IN  CHOOSE d \in ds : \A e \in ds : e <= d

\* the skip test of the loop
InsufficientAll(tr, va, te, ms) == len(tr) < ms /\ len(va) < ms /\ len(te) < ms
Insufficient(tr, va, te, ms) == len(tr) < ms \/ len(va) < ms \/ len(te) < ms

\* pandas BDay: Monday is day 0 of the week, days 5 and 6 are the weekend
IsBusinessDay(d) == d % 7 < 5
RECURSIVE NextBusinessDay(_)
NextBusinessDay(d) == IF IsBusinessDay(d + 1) THEN d + 1 ELSE NextBusinessDay(d + 1)
RECURSIVE AddBDay(_, _)
AddBDay(d, n) == IF n = 0 THEN d ELSE AddBDay(NextBusinessDay(d), n - 1)

\* the statement that follows each statement of the with-block
StepAfterForecastFirst(step) ==
    CASE step = "start_run" -> "fit"
      [] step = "fit" -> "predict_val"
      [] step = "predict_val" -> "predict_test"
      [] step = "predict_test" -> "predict_latest"
      [] step = "predict_latest" -> "publish_forecast"
      [] step = "publish_forecast" -> "log_metrics"
      [] step = "log_metrics" -> "publish_test"
      [] step = "publish_test" -> "end_run"
      [] OTHER -> "loop"
StepAfter(step) ==
    CASE step = "start_run" -> "fit"
      [] step = "fit" -> "predict_val"
      [] step = "predict_val" -> "predict_test"
      [] step = "predict_test" -> "log_metrics"
      [] step = "log_metrics" -> "publish_test"
      [] step = "publish_test" -> "predict_latest"
      [] step = "predict_latest" -> "publish_forecast"
      [] step = "publish_forecast" -> "end_run"
      [] OTHER -> "loop"

\* no statement of main catches an exception: a raise ends the program
AfterErrorSwallowed(resume) == resume
AfterError(resume) == "aborted"

Ev(ev, t, hh, info) == [ev |-> ev, target |-> t, h |-> hh, info |-> info]
Raise(kind, resume) ==
    /\ pc' = AfterError(resume)
    /\ trace' = Append(trace, Ev("raise", target_ticker, h, kind))

TestKey(t, hh) == <<t, hh, "predictions_test.csv">>
ForecastKey(t, hh) == <<t, hh, "forecast_latest.csv">>
Put(st, key, body) == [exists |-> TRUE, objects |-> (key :> body) @@ st.objects]

\* model.predict: one opaque value for every row, named by the run that
\* fitted the model and the row's label
Predict(m, Xf) == [i \in DOMAIN Xf.rows |-> [by |-> m.run, at |-> Xf.rows[i].date]]
PredVals == {Num(-1), Num(1)}

BuildFeatures ==
    /\ pc = "start"
    /\ IF target_env # "ALL" /\ PriceCol(target_env) \notin df_prices.cols
       THEN /\ Raise("ValueError", "built")
            /\ UNCHANGED <<features_df, todo>>
       ELSE /\ todo' = Pairs(IF target_env = "ALL" THEN TickerList(df_prices)
                             ELSE <<target_env>>, horizon_max)
            /\ features_df' = build_features(sort_index(df_prices), include_monthly,
                                             fill_pad, clip_low, clip_high)
            /\ pc' = "built"
            /\ UNCHANGED trace
    /\ UNCHANGED <<cfg, last_asof, target_ticker, h, xy_vars, split_vars, run_vars,
                   metrics, storage>>

CleanFeatures ==
    /\ pc = "built"
    /\ LET f == dropna(replace_inf_with_nan(features_df))
       IN  IF ~assert_no_nan(f)
           THEN Raise("DataQuality", "loop") /\ UNCHANGED <<features_df, last_asof>>
           ELSE IF f.rows = <<>>
           THEN Raise("NaT", "loop") /\ features_df' = f /\ UNCHANGED last_asof
           ELSE /\ features_df' = f
                /\ last_asof' = MaxDate(f)
                /\ pc' = "loop"
                /\ UNCHANGED trace
    /\ UNCHANGED <<cfg, todo, target_ticker, h, xy_vars, split_vars, run_vars,
                   metrics, storage>>

BuildDataset ==
    /\ pc = "loop" /\ todo # <<>>
    /\ target_ticker' = Head(todo)[1] /\ h' = Head(todo)[2]
    /\ todo' = Tail(todo)
    /\ LET r == make_xy(features_df, Head(todo)[1], Head(todo)[2])
           d == dropna(replace_inf_with_nan(JoinY(r.X, r.y)))
       IN  IF r.raised # ""
           THEN /\ pc' = AfterError("loop")
                /\ trace' = Append(trace, Ev("raise", Head(todo)[1], Head(todo)[2], r.raised))
                /\ UNCHANGED <<xy_vars, data>>
           ELSE /\ X' = r.X /\ y' = r.y /\ feature_cols' = r.feature_cols
                /\ data' = d
                /\ IF assert_no_nan(d)
                   THEN /\ pc' = "split"
                        /\ trace' = Append(trace, Ev("dataset", Head(todo)[1], Head(todo)[2], ""))
                   ELSE /\ pc' = AfterError("split")
                        /\ trace' = Append(trace, Ev("raise", Head(todo)[1], Head(todo)[2],
                                                     "DataQuality"))
    /\ UNCHANGED <<cfg, features_df, last_asof, train_df, val_df, test_df, run_vars,
                   metrics, storage>>

Split ==
    /\ pc = "split"
    /\ LET s == time_split(data, train_end, val_end)
       IN  /\ train_df' = s.train /\ val_df' = s.val /\ test_df' = s.test
           /\ trace' = Append(trace, Ev("split", target_ticker, h,
                                        <<len(s.train), len(s.val), len(s.test)>>))
    /\ pc' = "check"
    /\ UNCHANGED <<cfg, features_df, last_asof, todo, target_ticker, h, xy_vars, data,
                   run_vars, metrics, storage>>

Skip ==
    /\ pc = "check"
    /\ Insufficient(train_df, val_df, test_df, min_samples)
    /\ pc' = "loop"
    /\ trace' = Append(trace, Ev("skip", target_ticker, h, ""))
    /\ UNCHANGED <<cfg, features_df, last_asof, todo, target_ticker, h, xy_vars,
                   split_vars, run_vars, metrics, storage>>

Proceed ==
    /\ pc = "check"
    /\ ~Insufficient(train_df, val_df, test_df, min_samples)
    /\ pc' = "start_run"
    /\ UNCHANGED <<cfg, features_df, last_asof, todo, target_ticker, h, xy_vars,
                   split_vars, run_vars, metrics, storage, trace>>

RunFailed(m, id) == [m EXCEPT ![id].status = "FAILED"]

\* with mlflow.start_run(...) as run, and the log_param calls
StartRun ==
    /\ pc = "start_run"
    /\ \E ok \in BOOLEAN :
        IF ok
        THEN /\ run_id' = run_id + 1
             /\ metrics' = ((run_id + 1) :> [target |-> target_ticker, h |-> h,
                                              logged |-> {}, status |-> "RUNNING"])
                               @@ metrics
             /\ pc' = StepAfter("start_run")
             /\ trace' = Append(trace, Ev("start_run", target_ticker, h, ""))
        ELSE /\ Raise("TrackingError", StepAfter("start_run"))
             /\ UNCHANGED <<run_id, metrics>>
    /\ UNCHANGED <<cfg, features_df, last_asof, todo, target_ticker, h, xy_vars,
                   split_vars, model, val_pred, test_pred, x_last, pred_last, storage>>

\* model.fit(X_train, y_train); scikit-learn rejects a matrix without columns
Fit ==
    /\ pc = "fit"
    /\ IF feature_cols = {}
       THEN /\ Raise("ValueError", StepAfter("fit"))
            /\ metrics' = RunFailed(metrics, run_id)
            /\ UNCHANGED model
       ELSE /\ model' = [run |-> run_id, target |-> target_ticker, h |-> h,
                         X_train |-> Project(train_df, feature_cols),
                         y_train |-> Column(train_df, YCol)]
            /\ pc' = StepAfter("fit")
            /\ trace' = Append(trace, Ev("fit", target_ticker, h, ""))
            /\ UNCHANGED metrics
    /\ UNCHANGED <<cfg, features_df, last_asof, todo, target_ticker, h, xy_vars,
                   split_vars, run_id, val_pred, test_pred, x_last, pred_last, storage>>

PredictVal ==
    /\ pc = "predict_val"
    /\ val_pred' = Predict(model, Project(val_df, feature_cols))
    /\ pc' = StepAfter("predict_val")
    /\ trace' = Append(trace, Ev("predict_val", target_ticker, h, ""))
    /\ UNCHANGED <<cfg, features_df, last_asof, todo, target_ticker, h, xy_vars,
                   split_vars, run_id, model, test_pred, x_last, pred_last,
                   metrics, storage>>

PredictTest ==
    /\ pc = "predict_test"
    /\ test_pred' = Predict(model, Project(test_df, feature_cols))
    /\ pc' = StepAfter("predict_test")
    /\ trace' = Append(trace, Ev("predict_test", target_ticker, h, ""))
    /\ UNCHANGED <<cfg, features_df, last_asof, todo, target_ticker, h, xy_vars,
                   split_vars, run_id, model, val_pred, x_last, pred_last,
                   metrics, storage>>

\* the four log_metric calls and log_model
LogMetrics ==
    /\ pc = "log_metrics"
    /\ \E ok \in BOOLEAN :
        IF ok
        THEN /\ metrics' = [metrics EXCEPT ![run_id].logged =
                               {"val_mae", "val_rmse", "test_mae", "test_rmse", "model"}]
             /\ pc' = StepAfter("log_metrics")
             /\ trace' = Append(trace, Ev("log_metrics", target_ticker, h, ""))
        ELSE /\ Raise("TrackingError", StepAfter("log_metrics"))
             /\ metrics' = RunFailed(metrics, run_id)
    /\ UNCHANGED <<cfg, features_df, last_asof, todo, target_ticker, h, xy_vars,
                   split_vars, run_vars, storage>>

\* utils.py upload_df_as_csv_to_s3: ensure the bucket, then put the object.
\* The outcomes: stored; the bucket could not be created; the bucket is
\* there and the put failed.
Upload(key, body, step, ev) ==
    \E outcome \in {"ok", "no_bucket", "put_failed"} :
        CASE outcome = "ok" ->
                /\ storage' = Put(storage, key, body)
                /\ pc' = StepAfter(step)
                /\ trace' = Append(trace, Ev(ev, target_ticker, h, ""))
                /\ UNCHANGED metrics
          [] outcome = "no_bucket" ->
                /\ ~storage.exists
                /\ Raise("StorageError", StepAfter(step))
                /\ metrics' = RunFailed(metrics, run_id)
                /\ UNCHANGED storage
          [] OTHER ->
                /\ Raise("StorageError", StepAfter(step))
                /\ metrics' = RunFailed(metrics, run_id)
                /\ storage' = [storage EXCEPT !.exists = TRUE]

PublishTest ==
    /\ pc = "publish_test"
    /\ LET pred_test_df ==
            [i \in DOMAIN test_df.rows |->
                [asof_date |-> test_df.rows[i].date,
                 target_ticker |-> target_ticker,
                 horizon_days |-> h,
                 y_true |-> test_df.rows[i].c[YCol],
                 y_pred |-> test_pred[i],
                 run_id |-> run_id,
                 split |-> "test"]]
       IN  Upload(TestKey(target_ticker, h), pred_test_df, "publish_test", "publish_test")
    /\ UNCHANGED <<cfg, features_df, last_asof, todo, target_ticker, h, xy_vars,
                   split_vars, run_vars>>

\* x_last = X.iloc[[-1]]; pred_last = float(model.predict(x_last)[0])
PredictLatest ==
    /\ pc = "predict_latest"
    /\ IF X.rows = <<>>
       THEN /\ Raise("IndexError", StepAfter("predict_latest"))
            /\ metrics' = RunFailed(metrics, run_id)
            /\ UNCHANGED <<x_last, pred_last>>
       ELSE /\ x_last' = Frame(X.cols, <<X.rows[Len(X.rows)]>>)
            /\ pred_last' \in PredVals
            /\ pc' = StepAfter("predict_latest")
            /\ trace' = Append(trace, Ev("predict_latest", target_ticker, h, ""))
            /\ UNCHANGED metrics
    /\ UNCHANGED <<cfg, features_df, last_asof, todo, target_ticker, h, xy_vars,
                   split_vars, run_id, model, val_pred, test_pred, storage>>

PublishForecast ==
    /\ pc = "publish_forecast"
    /\ LET forecast_df ==
            <<[asof_date |-> DayOf(last_asof),
               forecast_for_date |-> AddBDay(DayOf(last_asof), h),
               target_ticker |-> target_ticker,
               horizon_days |-> h,
               pred_ret_next |-> pred_last,
               pred_sign |-> IF pred_last.v > 0 THEN 1 ELSE 0,
               run_id |-> run_id,
               split |-> "forecast_latest"]>>
       IN  Upload(ForecastKey(target_ticker, h), forecast_df, "publish_forecast",
                  "publish_forecast")
    /\ UNCHANGED <<cfg, features_df, last_asof, todo, target_ticker, h, xy_vars,
                   split_vars, run_vars>>

\* the two closing prints and the end of the with-block
EndRun ==
    /\ pc = "end_run"
    /\ metrics' = [metrics EXCEPT ![run_id].status = "FINISHED"]
    /\ pc' = StepAfter("end_run")
    /\ trace' = Append(trace, Ev("end_run", target_ticker, h, ""))
    /\ UNCHANGED <<cfg, features_df, last_asof, todo, target_ticker, h, xy_vars,
                   split_vars, run_vars, storage>>

Done ==
    /\ pc = "loop" /\ todo = <<>>
    /\ pc' = "done"
    /\ trace' = Append(trace, Ev("done", "", 0, ""))
    /\ UNCHANGED <<cfg, features_df, last_asof, todo, target_ticker, h, xy_vars,
                   split_vars, run_vars, metrics, storage>>

(* ------------------------------ the run -------------------------------- *)
\* Daily prices on consecutive days from day 0 (a Monday): A alternates
\* 2, 1, 2, ..., B moves every second day; hole > 0 blanks A's price in that row.
MainTable(ts, n, hole) ==
    Frame({PriceCol(t) : t \in ts},
          [i \in 1..n |->
              [date |-> Midnight(i - 1),
               c |-> [col \in {PriceCol(t) : t \in ts} |->
                        IF col = PriceCol("A")
                        THEN (IF i = hole THEN NaN ELSE Num(1 + (i % 2)))
                        ELSE Num(1 + ((i \div 2) % 2))]]])

\* what an earlier run left in the bucket
OldStorage ==
    [exists |-> TRUE,
     objects |-> (ForecastKey("A", 1) :>
                    <<[asof_date |-> 0, forecast_for_date |-> 1, target_ticker |-> "A",
                       horizon_days |-> 1, pred_ret_next |-> Num(1), pred_sign |-> 1,
                       run_id |-> 0, split |-> "forecast_latest"]>>)]

InitRun ==
    /\ run_id = 0 /\ model = <<>> /\ val_pred = <<>> /\ test_pred = <<>>
    /\ x_last = NoFrame /\ pred_last = NaN
    /\ metrics = <<>> /\ trace = <<>>
    /\ features_df = NoFrame /\ last_asof = -1 /\ todo = <<>>
    /\ target_ticker = "" /\ h = 0
    /\ X = NoFrame /\ y = <<>> /\ feature_cols = {}
    /\ data = NoFrame /\ train_df = NoFrame /\ val_df = NoFrame /\ test_df = NoFrame

Init ==
    /\ pc = "start"
    /\ \E ts \in TickerSets, n \in (MainRows - 1)..MainRows, hole \in {0, 3} :
          df_prices = MainTable(ts, n, hole)
    /\ fill_pad \in BOOLEAN
    /\ include_monthly \in BOOLEAN
    /\ clip_low = Num(-20) /\ clip_high = Num(20)
    /\ train_end \in 0..(MainRows - 1) /\ val_end \in 0..(MainRows - 1)
    /\ min_samples \in 1..MaxMinSamples
    /\ horizon_max \in 1..MainH
    /\ target_env \in {"ALL", "A", "B"}
    /\ storage \in {NoStorage, OldStorage}
    /\ InitRun

Next ==
    \/ BuildFeatures
    \/ CleanFeatures
    \/ BuildDataset
    \/ Split
    \/ Skip
    \/ Proceed
    \/ StartRun
    \/ Fit
    \/ PredictVal
    \/ PredictTest
    \/ LogMetrics
    \/ PublishTest
    \/ PredictLatest
    \/ PublishForecast
    \/ EndRun
    \/ Done

Spec == Init /\ [][Next]_vars

SamePair(a, b) == a.target = b.target /\ a.h = b.h
ThisRun(obj) == \A k \in DOMAIN obj : obj[k].run_id >= 1
EventsOf(e) == {trace[j].ev : j \in {j \in DOMAIN trace : SamePair(trace[j], e)}}

\* C3: a pair with a slice shorter than min_samples raises nothing, starts no
\* run, fits nothing, publishes nothing, and the loop goes on to the next pair;
\* a pair with three slices of at least min_samples rows is never skipped.
C3_SkipPolicy ==
    \A i \in DOMAIN trace :
        trace[i].ev = "split" =>
            LET e == trace[i]
                short == \E k \in 1..3 : e.info[k] < min_samples
            IN  /\ short =>
                    /\ EventsOf(e) \subseteq {"dataset", "split", "skip"}
                    /\ i < Len(trace) => trace[i + 1].ev = "skip" /\ SamePair(trace[i + 1], e)
                    /\ i + 1 < Len(trace) =>
                          /\ trace[i + 2].ev \in {"dataset", "done"}
                          /\ ~SamePair(trace[i + 2], e)
                    /\ \A key \in {TestKey(e.target, e.h), ForecastKey(e.target, e.h)} :
                          key \in DOMAIN storage.objects => ~ThisRun(storage.objects[key])
                /\ ~short => "skip" \notin EventsOf(e)

\* a pair is skipped and a later pair of the same run is trained and published
C3_Witness ==
    \E i, j \in DOMAIN trace :
        i < j /\ trace[i].ev = "skip" /\ trace[j].ev = "publish_forecast"

\* C5: the latest forecast is predicted from the most recent feature row, and
\* the record's asof_date is the date of the row that was predicted from
\* (forecast_for_date is that date plus h business days).
C5_AsOfDate ==
    pc = "end_run" =>
        LET rec == storage.objects[ForecastKey(target_ticker, h)][1]
            used == x_last.rows[1].date
        IN  /\ used = MaxDate(features_df)
            /\ rec.asof_date = DayOf(used)
            /\ rec.forecast_for_date = AddBDay(DayOf(used), h)

\* C8: a failure other than the skip ends the run at once: nothing follows the
\* raise, and the bucket holds what was published before it - the objects of
\* this run are exactly those the run's publish steps put, each from the run
\* of its own pair, and the other objects are the ones found at the start.
C8_FailFast ==
    /\ \A i \in DOMAIN trace :
          trace[i].ev = "raise" => i = Len(trace) /\ pc = "aborted"
    /\ pc = "aborted" => trace # <<>> /\ trace[Len(trace)].ev = "raise"
    /\ \A key \in DOMAIN storage.objects :
          LET obj == storage.objects[key]
          IN  IF ThisRun(obj)
              THEN /\ \E i \in DOMAIN trace :
                        /\ trace[i].ev = (IF key[3] = "forecast_latest.csv"
                                          THEN "publish_forecast" ELSE "publish_test")
                        /\ trace[i].target = key[1] /\ trace[i].h = key[2]
                   /\ \A k \in DOMAIN obj :
                        /\ metrics[obj[k].run_id].target = key[1]
                        /\ metrics[obj[k].run_id].h = key[2]
              ELSE obj = OldStorage.objects[key]
    /\ \A i \in DOMAIN trace :
          trace[i].ev = "publish_test" =>
              TestKey(trace[i].target, trace[i].h) \in DOMAIN storage.objects

\* the store fails in a run that has already published an earlier pair
C8_Witness ==
    /\ pc = "aborted"
    /\ trace[Len(trace)].info = "StorageError"
    /\ \E i \in DOMAIN trace :
          trace[i].ev = "publish_forecast" /\ ~SamePair(trace[i], trace[Len(trace)])

StepOrder == <<"start_run", "fit", "predict_val", "predict_test", "log_metrics",
               "publish_test", "predict_latest", "publish_forecast", "end_run">>
\* C10: the steps of an iteration happen in the order fit, predict validation,
\* predict test, log metrics, publish test predictions, predict latest, publish
\* forecast; a forecast published by this run implies the test predictions of
\* the same pair published and the metrics logged by the same run.
C10_StepOrder ==
    /\ \A i \in DOMAIN trace : \A k \in 2..Len(StepOrder) :
          trace[i].ev = StepOrder[k] =>
              /\ i > 1
              /\ trace[i - 1].ev = StepOrder[k - 1]
              /\ SamePair(trace[i - 1], trace[i])
    /\ \A t \in {"A", "B"}, hh \in 1..MainH :
          (/\ ForecastKey(t, hh) \in DOMAIN storage.objects
           /\ ThisRun(storage.objects[ForecastKey(t, hh)])) =>
              LET r == storage.objects[ForecastKey(t, hh)][1].run_id
              IN  /\ TestKey(t, hh) \in DOMAIN storage.objects
                  /\ \A k \in DOMAIN storage.objects[TestKey(t, hh)] :
                        storage.objects[TestKey(t, hh)][k].run_id = r
                  /\ {"val_mae", "val_rmse", "test_mae", "test_rmse"}
                        \subseteq metrics[r].logged

\* the run is over and has published a forecast
C10_Witness ==
    /\ pc = "done"
    /\ \E i \in DOMAIN trace : trace[i].ev = "publish_forecast"

(* ------------- the run on dirty prices, MIN_SAMPLES_PER_SPLIT unset ----- *)
DefaultMinSamples == 200
DirtyPrices == {NaN, Num(0), Num(1), Num(2), Inf}
ClipConfigs == {<<Num(-20), Num(20)>>, <<Num(20), Num(-20)>>, <<NaN, Num(10)>>, <<Inf, Inf>>}
\* as MainTable, the prices of A drawn freely from DirtyPrices
DirtyTables ==
    UNION { { Frame({PriceCol(t) : t \in ts},
                    [i \in 1..n |->
                        [date |-> Midnight(i - 1),
                         c |-> [col \in {PriceCol(t) : t \in ts} |->
                                  IF col = PriceCol("A") THEN a[i]
                                  ELSE Num(1 + ((i \div 2) % 2))]]]) :
              a \in [1..n -> DirtyPrices] } : ts \in TickerSets, n \in 1..DirtyRows }

InitDirty ==
    /\ pc = "start"
    /\ df_prices \in DirtyTables
    /\ fill_pad \in BOOLEAN
    /\ include_monthly \in BOOLEAN
    /\ \E cc \in ClipConfigs : clip_low = cc[1] /\ clip_high = cc[2]
    /\ train_end = 1 /\ val_end = 2
    /\ min_samples = DefaultMinSamples
    /\ horizon_max = 2
    /\ target_env = "ALL"
    /\ storage = NoStorage
    /\ InitRun

\* no dataset of these sizes has DefaultMinSamples rows: every pair is skipped
NextDirty ==
    \/ BuildFeatures
    \/ CleanFeatures
    \/ BuildDataset
    \/ Split
    \/ Skip
    \/ Done

SpecDirty == InitDirty /\ [][NextDirty]_vars

NoMissing(df) == \A i \in DOMAIN df.rows : \A col \in df.cols : IsNum(df.rows[i].c[col])
NeverDataQualityError ==
    \A i \in DOMAIN trace : trace[i].ev = "raise" => trace[i].info # "DataQuality"

\* C9: for every configuration and any clip bounds, the matrix build_features
\* returns and the dataset handed to time_split hold no missing and no infinite
\* value, and assert_no_nan never fails.
C9_NoMissing ==
    /\ pc = "built" => NoMissing(features_df)
    /\ pc \in {"split", "check"} => NoMissing(data)
    /\ NeverDataQualityError

\* C9 amended: the same for finite clip bounds; the cleaned matrix, the dataset
\* and the assert_no_nan checks are as claimed for any bounds.
C9_NoMissingFiniteClip ==
    /\ (pc = "built" /\ IsNum(clip_low) /\ IsNum(clip_high)) => NoMissing(features_df)
    /\ pc \in {"loop", "split", "check"} => NoMissing(features_df)
    /\ pc \in {"split", "check"} => NoMissing(data)
    /\ NeverDataQualityError

\* a dataset with rows is handed to time_split though the prices held a
\* missing value, a zero or an infinity
C9_Witness ==
    /\ pc = "split" /\ len(data) >= 1
    /\ IsNum(clip_low) /\ IsNum(clip_high)
    /\ \E i \in DOMAIN df_prices.rows :
          df_prices.rows[i].c[PriceCol("A")] \in {NaN, Num(0), Inf}

=============================================================================
